---------------------------- MODULE Spec2Model ----------------------------
(***************************************************************************)
(* LSB image steganography (src/main.py, class ImageSteganography).        *)
(*                                                                         *)
(* An image is a row-major sequence of W*H pixels, a pixel a triple of     *)
(* channel values, a message a sequence of character codes.  encode_message*)
(* validates its arguments, copies the image and runs encrypt_image, whose *)
(* putpixel loop pulls pixels out of the generator generate_data; the      *)
(* generator reads the very image the loop writes.  decode_message walks   *)
(* an image three pixels at a time.                                        *)
(***************************************************************************)
EXTENDS Integers, Sequences, FiniteSets, TLC

VARIABLES
    W, H,      \* image.size of the source image
    src,       \* pixels of the image file at img_path, after convert('RGB')
    text,      \* the message handed to encode_message, as character codes
    paths,     \* how img_path / output_path were filled in ("unset" before the call)
    img,       \* new_image: the copy encrypt_image writes into (<<>> before the copy)
    epc,       \* where encode_message stands: idle, gen, put, done, failed
    gi,        \* generate_data: loop index i
    rpos,      \* generate_data: pixels consumed from iter(pixels)
    yq,        \* generate_data: pixels of the current group not yet yielded
    x, y,      \* encrypt_image: write cursor
    nwrites,   \* number of putpixel calls made
    elog,      \* the pixel accesses of the encode so far, in order: reads of
               \* the generator and writes of the loop, each with its scan index
    eres,      \* outcome of encode_message
    out,       \* pixels of the saved PNG (<<>> while nothing is saved)
    dimg,      \* decode_message: pixels of the opened image
    dpc,       \* where decode_message stands: idle, run, done
    dpos,      \* decode_message: pixels consumed from iter(image.getdata())
    data,      \* decode_message: characters accumulated so far
    dres,      \* outcome of decode_message
    cv, cb,    \* one channel value and one message bit (parity rule on its own)
    cw,        \* the channel value after the parity rule was applied to (cv, cb)
    cpc        \* whether the parity rule was applied: idle, done

vars == <<W, H, src, text, paths, img, epc, gi, rpos, yq, x, y, nwrites, elog,
          eres, out, dimg, dpc, dpos, data, dres, cv, cb, cw, cpc>>

encVars == <<paths, img, epc, gi, rpos, yq, x, y, nwrites, elog, eres, out>>
decVars == <<dimg, dpc, dpos, data, dres>>
bitVars == <<cv, cb, cw, cpc>>
inVars  == <<W, H, src, text>>

-----------------------------------------------------------------------------
(* Bounds of the model *)

MaxW == 3        \* widest tiled image
MaxH == 3        \* tallest tiled image
MaxLen == 2      \* longest message of the encode runs
MaxFree == 7     \* most pixels of a freely chosen image
MaxCapW == 10    \* capacity check: widest image
MaxCapH == 4     \* capacity check: tallest image
MaxCapLen == 50  \* capacity check: longest message

(* Program constants *)

MaxChannel == 255      \* the largest channel value of an RGB pixel
GroupPixels == 3       \* pixels read per character
GroupBits == 8         \* channel values modified per character
Delimiter == 0         \* chr(0), the end-of-message mark

-----------------------------------------------------------------------------
(* Pure helpers *)

RECURSIVE BinDigits(_)
\* the binary digits of n, most significant first ("0" for 0), as format(n, 'b')
BinDigits(n) == IF n < 2 THEN <<n>> ELSE Append(BinDigits(n \div 2), n % 2)

RECURSIVE ZeroPad(_, _)
ZeroPad(s, width) == IF Len(s) >= width THEN s ELSE ZeroPad(<<0>> \o s, width)

\* variant of Format08b: the digits come least significant first
Format08bLowFirst(code) ==
    LET d == ZeroPad(BinDigits(code), GroupBits)
    IN  [j \in 1..Len(d) |-> d[Len(d) + 1 - j]]

\* format(ord(char), '08b'): at least 8 digits, more when the code needs them
Format08b(code) == ZeroPad(BinDigits(code), GroupBits)

\* data += chr(0); one binary string per character
DataInBinary(t) == [k \in 1..(Len(t) + 1) |-> Format08b(Append(t, Delimiter)[k])]

\* variant of WriteBit: a 0 bit leaves an odd channel value as it is
WriteBitNoClear(v, bit) ==
    IF bit = 1
    THEN IF v % 2 = 0 THEN v + (IF v < MaxChannel THEN 1 ELSE -1) ELSE v
    ELSE v

\* variant of WriteBit: a value of the wrong parity is always incremented
WriteBitUp(v, bit) == IF v % 2 = bit THEN v ELSE v + 1

\* the parity rule of generate_data for one channel value
WriteBit(v, bit) ==
    IF bit = 1
    THEN IF v % 2 = 0 THEN v + (IF v < MaxChannel THEN 1 ELSE -1) ELSE v
    ELSE IF v % 2 = 1 THEN v - (IF v > 0 THEN 1 ELSE -1) ELSE v

\* the bit decode_message reads from one channel value
ReadBit(v) == v % 2

\* pixel_set: the 9 channel values of three pixels
Flatten(p1, p2, p3) == p1 \o p2 \o p3

\* variant of ModifyGroup: the ninth channel value is given the last bit too
ModifyGroupNine(pixel_set, bits) ==
    [j \in 1..Len(pixel_set) |->
        WriteBit(pixel_set[j], bits[IF j <= GroupBits THEN j ELSE GroupBits])]

\* the channel values of one group after the first 8 were given the bits
ModifyGroup(pixel_set, bits) ==
    [j \in 1..Len(pixel_set) |->
        IF j <= GroupBits THEN WriteBit(pixel_set[j], bits[j]) ELSE pixel_set[j]]

\* the three tuples generate_data yields for one group
Regroup(ps) == << SubSeq(ps, 1, 3), SubSeq(ps, 4, 6), SubSeq(ps, 7, 9) >>

RECURSIVE BitsToInt(_)
\* int(binary_string, 2)
BitsToInt(bits) ==
    IF bits = <<>> THEN 0
    ELSE 2 * BitsToInt(SubSeq(bits, 1, Len(bits) - 1)) + bits[Len(bits)]

\* the character code decode_message reads out of three pixels
GroupCode(p1, p2, p3) ==
    BitsToInt([j \in 1..GroupBits |-> ReadBit(Flatten(p1, p2, p3)[j])])

\* min_pixels_needed of encode_message
MinPixelsNeeded(t) == (Len(t) + 1) * GroupPixels

\* total_pixels of encode_message
TotalPixels == W * H

\* outcomes of encode_message; needed/available are the numbers of the
\* capacity message
NoResult == [kind |-> "none", needed |-> 0, available |-> 0]
Result(k) == [kind |-> k, needed |-> 0, available |-> 0]

\* outcomes of decode_message
NoDecode == [kind |-> "none", data |-> <<>>]
DecodeError(k) == [kind |-> k, data |-> <<>>]

-----------------------------------------------------------------------------
(* Inputs *)

\* character codes the messages are made of: the delimiter, two one-byte
\* codes (255 is the largest) and one code that needs nine binary digits
Chars == {0, 72, 255, 300}

RECURSIVE SeqsUpTo(_, _)
\* the sequences over S of length at most n
SeqsUpTo(S, n) ==
    IF n = 0 THEN {<<>>}
    ELSE LET shorter == SeqsUpTo(S, n - 1)
         IN  shorter \cup {Append(s, e) : s \in shorter, e \in S}

Messages == SeqsUpTo(Chars, MaxLen)

\* pixels of the tiled images: both ends of the channel range, both parities,
\* and one pixel that is even in every channel
Palette == {<<0, 255, 254>>, <<255, 0, 1>>, <<128, 0, 254>>}
Tiles == Palette \X Palette \X Palette

\* a W*H image that repeats the tile in scan order
Tiled(tile, n) == [i \in 1..n |-> tile[((i - 1) % Len(tile)) + 1]]

\* pixels of the freely chosen images: all-even, and odd in the blue channel
FreePalette == {<<0, 0, 0>>, <<254, 0, 255>>}
FreeGrids == SeqsUpTo(FreePalette, MaxFree) \ {<<>>}

IdleState ==
    /\ paths = "unset" /\ img = <<>> /\ epc = "idle"
    /\ gi = 0 /\ rpos = 0 /\ yq = <<>> /\ x = 0 /\ y = 0 /\ nwrites = 0
    /\ elog = <<>>
    /\ eres = NoResult /\ out = <<>>
    /\ dimg = <<>> /\ dpc = "idle" /\ dpos = 0 /\ data = <<>> /\ dres = NoDecode

BitIdle == cv = 0 /\ cb = 0 /\ cw = 0 /\ cpc = "idle"

\* tiled images of every shape up to MaxW x MaxH, every message
InitTiled ==
    /\ W \in 1..MaxW /\ H \in 1..MaxH
    /\ \E tile \in Tiles : src = Tiled(tile, W * H)
    /\ text \in Messages

\* a one-row image of freely chosen pixels, a one-character message
InitFree ==
    /\ src \in FreeGrids
    /\ W = Len(src) /\ H = 1
    /\ text = <<72>>

\* an image of black pixels
Blank(n) == [i \in 1..n |-> <<0, 0, 0>>]

\* black images of every shape up to MaxW x MaxH, messages made of "H", "i"
InitBlack ==
    /\ W \in 1..MaxW /\ H \in 1..MaxH
    /\ src = Blank(W * H)
    /\ text \in SeqsUpTo({72, 105}, MaxLen)

Init == (InitTiled \/ InitFree \/ InitBlack) /\ IdleState /\ BitIdle

-----------------------------------------------------------------------------
(* encode_message *)

\* variant of TooSmall: the image is accepted one pixel too late
TooSmallOffByOne == TotalPixels <= MinPixelsNeeded(text)

\* variant of TooSmall: the delimiter's three pixels are not counted
TooSmallNoDelimiter == TotalPixels < Len(text) * GroupPixels

\* line 94: the image cannot hold the message and its delimiter
TooSmall == TotalPixels < MinPixelsNeeded(text)

\* variant of EncodeCheck: an empty message is not a missing field
EncodeCheckNoText(f) ==
    IF f = "blank" THEN Result("fields")
    ELSE IF f = "missing" THEN Result("notfound")
    ELSE IF TooSmall
         THEN [kind |-> "capacity", needed |-> MinPixelsNeeded(text),
               available |-> TotalPixels]
         ELSE Result("pass")

\* lines 81-95: the checks made before the image is copied
EncodeCheck(f) ==
    IF f = "blank" \/ text = <<>> THEN Result("fields")
    ELSE IF f = "missing" THEN Result("notfound")
    ELSE IF TooSmall
         THEN [kind |-> "capacity", needed |-> MinPixelsNeeded(text),
               available |-> TotalPixels]
         ELSE Result("pass")

\* encode_message up to the call of encrypt_image (lines 81-99, 62-65)
EncodeStart ==
    /\ epc = "idle" /\ dpc = "idle"
    /\ \E f \in {"ok", "blank", "missing"} :
         /\ paths' = f
         /\ IF EncodeCheck(f).kind = "pass"
            THEN /\ img' = src            \* new_image = image.copy()
                 /\ epc' = "gen"
                 /\ eres' = eres
            ELSE /\ img' = img
                 /\ epc' = "failed"
                 /\ eres' = EncodeCheck(f)
    /\ gi' = 0 /\ rpos' = 0 /\ yq' = <<>> /\ x' = 0 /\ y' = 0
    /\ UNCHANGED <<nwrites, elog, out>>
    /\ UNCHANGED <<inVars, decVars, bitVars>>

\* the next() calls of one group: the scan indices from..to-1 read in order
ReadsOf(from, to) == [n \in 1..(to - from) |-> [op |-> "read", at |-> from + n - 1]]

\* the three tuples the generator yields for character i, read off the image
\* at its iterator position
GroupYield(i) ==
    Regroup(ModifyGroup(Flatten(img[rpos + 1], img[rpos + 2], img[rpos + 3]),
                        DataInBinary(text)[i + 1]))

\* generate_data resumed for character gi (lines 34-52): three next() calls,
\* eight parity writes; StopIteration becomes the generator's exception
GenNext ==
    /\ epc = "gen" /\ gi < Len(text) + 1
    /\ IF Len(img) - rpos < GroupPixels
       THEN /\ rpos' = Len(img)
            /\ elog' = elog \o ReadsOf(rpos, Len(img))
            /\ epc' = "failed"
            /\ eres' = Result("gen_small")
            /\ UNCHANGED <<gi, yq>>
       ELSE /\ yq' = GroupYield(gi)
            /\ rpos' = rpos + GroupPixels
            /\ elog' = elog \o ReadsOf(rpos, rpos + GroupPixels)
            /\ gi' = gi + 1
            /\ epc' = "put"
            /\ eres' = eres
    /\ UNCHANGED <<paths, img, x, y, nwrites, out>>
    /\ UNCHANGED <<inVars, decVars, bitVars>>

\* variant of ScanIndex: the image is addressed column by column
ScanIndexByColumn(px, py) == px * H + py

\* the scan index of the pixel at (x, y) of the row-major image
ScanIndex(px, py) == py * W + px

\* putpixel((x, y), pixel) on the row-major image
PutAt(image, px, py, pixel) == [image EXCEPT ![ScanIndex(px, py) + 1] = pixel]

\* one pass of the loop of encrypt_image (lines 65-74) for the next yielded pixel
PutPixel ==
    /\ epc = "put" /\ yq # <<>>
    /\ IF y >= H
       THEN /\ epc' = "failed"
            /\ eres' = Result("row_overflow")
            /\ UNCHANGED <<img, yq, x, y, nwrites, elog>>
       ELSE /\ img' = PutAt(img, x, y, Head(yq))
            /\ elog' = Append(elog, [op |-> "write", at |-> ScanIndex(x, y)])
            /\ yq' = Tail(yq)
            /\ nwrites' = nwrites + 1
            /\ x' = IF x + 1 >= W THEN 0 ELSE x + 1
            /\ y' = IF x + 1 >= W THEN y + 1 ELSE y
            /\ epc' = IF Tail(yq) = <<>> THEN "gen" ELSE "put"
            /\ eres' = eres
    /\ UNCHANGED <<paths, gi, rpos, out>>
    /\ UNCHANGED <<inVars, decVars, bitVars>>

\* the generator is exhausted: encrypt_image returns and the image is saved
\* as PNG (lines 76, 101-106)
EncodeFinish ==
    /\ epc = "gen" /\ gi = Len(text) + 1
    /\ out' = img
    /\ epc' = "done"
    /\ eres' = Result("ok")
    /\ UNCHANGED <<paths, img, gi, rpos, yq, x, y, nwrites, elog>>
    /\ UNCHANGED <<inVars, decVars, bitVars>>

-----------------------------------------------------------------------------
(* decode_message *)

\* the image files that exist: the source image, and the saved output
Existing == {"src"} \cup (IF epc = "done" THEN {"out"} ELSE {})

\* variant of DecodeOutcome: whatever was accumulated is returned
DecodeOutcomeAlways(d) == [kind |-> "ok", data |-> d]

\* what `if not data` decides (lines 146-149)
DecodeOutcome(d) ==
    IF d = <<>> THEN DecodeError("nomsg")
    ELSE [kind |-> "ok", data |-> d]

\* variant of IsDelimiter: the character is compared with the number 0
IsDelimiterNever(code) == FALSE

\* line 138: the character read is the delimiter
IsDelimiter(code) == code = Delimiter

\* variant of GroupLeft: the last complete group is not taken
GroupLeftStrict == Len(dimg) - dpos > GroupPixels

\* lines 125-126: three more pixels can be taken from the iterator
GroupLeft == Len(dimg) - dpos >= GroupPixels

\* decode_message up to its loop (lines 111-119)
DecodeStart ==
    /\ dpc = "idle" /\ epc \in {"idle", "done", "failed"}
    /\ \E p \in {"blank", "missing"} \cup Existing :
         CASE p = "blank"   -> /\ dpc' = "done"
                               /\ dres' = DecodeError("select")
                               /\ dimg' = dimg
           [] p = "missing" -> /\ dpc' = "done"
                               /\ dres' = DecodeError("notfound")
                               /\ dimg' = dimg
           [] p = "src"     -> /\ dpc' = "run" /\ dres' = dres /\ dimg' = src
           [] p = "out"     -> /\ dpc' = "run" /\ dres' = dres /\ dimg' = out
    /\ dpos' = 0 /\ data' = <<>>
    /\ UNCHANGED <<inVars, encVars, bitVars>>

\* one pass of the loop with a complete group left (lines 122-141)
DecodeGroup ==
    /\ dpc = "run" /\ GroupLeft
    /\ dpos' = dpos + GroupPixels
    /\ LET code == GroupCode(dimg[dpos + 1], dimg[dpos + 2], dimg[dpos + 3])
       IN  IF IsDelimiter(code)
           THEN /\ dpc' = "done"
                /\ dres' = DecodeOutcome(data)
                /\ data' = data
           ELSE /\ data' = Append(data, code)
                /\ UNCHANGED <<dpc, dres>>
    /\ UNCHANGED dimg
    /\ UNCHANGED <<inVars, encVars, bitVars>>

\* next() raises StopIteration inside the group (lines 126, 143-149)
DecodeExhausted ==
    /\ dpc = "run" /\ ~GroupLeft
    /\ dpos' = Len(dimg)
    /\ dpc' = "done"
    /\ dres' = DecodeOutcome(data)
    /\ UNCHANGED <<dimg, data>>
    /\ UNCHANGED <<inVars, encVars, bitVars>>

-----------------------------------------------------------------------------
Next ==
    \/ EncodeStart
    \/ GenNext
    \/ PutPixel
    \/ EncodeFinish
    \/ DecodeStart
    \/ DecodeGroup
    \/ DecodeExhausted

Spec == Init /\ [][Next]_vars

-----------------------------------------------------------------------------
(* The capacity check on its own: encode_message entered with images and    *)
(* messages of the sizes its diagnostic is about                            *)

Filled(n) == [i \in 1..n |-> 72]

CapInit ==
    /\ W \in 1..MaxCapW /\ H \in 1..MaxCapH
    /\ src = Blank(W * H)
    /\ \E n \in 0..MaxCapLen : text = Filled(n)
    /\ IdleState /\ BitIdle

CapNext == EncodeStart

CapSpec == CapInit /\ [][CapNext]_vars

-----------------------------------------------------------------------------
(* The parity rule on its own: every channel value, both bits               *)

BitInit ==
    /\ cv \in 0..MaxChannel /\ cb \in {0, 1} /\ cw = cv /\ cpc = "idle"
    /\ W = 1 /\ H = 1 /\ src = Blank(1) /\ text = <<>>
    /\ IdleState

\* lines 44-49 for one channel value of pixel_set
ApplyWriteBit ==
    /\ cpc = "idle"
    /\ cw' = WriteBit(cv, cb)
    /\ cpc' = "done"
    /\ UNCHANGED <<cv, cb>>
    /\ UNCHANGED <<inVars, encVars, decVars>>

BitNext == ApplyWriteBit

BitSpec == BitInit /\ [][BitNext]_vars


-----------------------------------------------------------------------------
(* Properties *)

\* every character is a one-byte code other than the delimiter
OneByteNoNul(t) == \A i \in 1..Len(t) : t[i] \in 1..MaxChannel

\* encode_message has returned or raised
EncodeOver == epc \in {"done", "failed"}

\* decode_message has returned or raised after opening the saved output
DecodedOutput == dpc = "done" /\ epc = "done" /\ dimg = out

\* the 8 channel values group k of image g uses for its character
GroupChannels(g, k) ==
    SubSeq(g[3 * k + 1] \o g[3 * k + 2] \o g[3 * k + 3], 1, 8)

\* the first 8 channel values of group k of image g are all even
AllEven(g, k) == \A j \in 1..8 : GroupChannels(g, k)[j] % 2 = 0

\* the character the parities of group k of image g spell, first channel
\* most significant
ParityCode(g, k) ==
    LET c == GroupChannels(g, k)
    IN  128 * (c[1] % 2) + 64 * (c[2] % 2) + 32 * (c[3] % 2) + 16 * (c[4] % 2)
        + 8 * (c[5] % 2) + 4 * (c[6] % 2) + 2 * (c[7] % 2) + (c[8] % 2)

\* the complete groups of image g, and those that carry the terminator
Groups(g) == 0..((Len(g) \div 3) - 1)
Terminators(g) == {k \in Groups(g) : AllEven(g, k)}

\* decode_message has returned or raised after opening an image
DecodeOver == dpc = "done" /\ dimg # <<>>

\* C1 as stated: round trip for every message of length >= 0 of one-byte
\* codes without the delimiter, into every image of at least 3*(len+1)
\* pixels: the encode succeeds and decoding its output returns the message.
C1_RoundTripAnyLength ==
    (/\ paths = "ok" /\ EncodeOver
     /\ OneByteNoNul(text)
     /\ W * H >= 3 * (Len(text) + 1))
    => /\ epc = "done"
       /\ DecodedOutput => dres = [kind |-> "ok", data |-> text]

\* C1 amended: the round trip holds for every such message of length >= 1.
C1_RoundTrip ==
    (/\ paths = "ok" /\ EncodeOver
     /\ Len(text) >= 1 /\ OneByteNoNul(text)
     /\ W * H >= 3 * (Len(text) + 1))
    => /\ epc = "done"
       /\ DecodedOutput => dres = [kind |-> "ok", data |-> text]

\* a two-character message came back out of an image the encode changed
C1_Witness ==
    /\ DecodedOutput /\ Len(text) = 2 /\ OneByteNoNul(text)
    /\ out # src
    /\ dres = [kind |-> "ok", data |-> text]

\* C2 as stated: encode_message, given its paths, fails with the capacity
\* error exactly when W*H < 3*(L+1), and the error carries needed = 3*(L+1)
\* and available = W*H.
C2_CapacityIff ==
    (paths = "ok" /\ epc # "idle")
    => /\ (eres.kind = "capacity") <=> (W * H < 3 * (Len(text) + 1))
       /\ eres.kind = "capacity"
            => eres.needed = 3 * (Len(text) + 1) /\ eres.available = W * H

\* C2 amended: for a message of length L >= 1 the capacity error is raised
\* exactly when W*H < 3*(L+1), with needed = 3*(L+1) and available = W*H;
\* the empty message is turned down as a missing field whatever the size.
C2_CapacityIffNonEmpty ==
    (paths = "ok" /\ epc # "idle")
    => /\ Len(text) >= 1
            => ((eres.kind = "capacity") <=> (W * H < 3 * (Len(text) + 1)))
       /\ eres.kind = "capacity"
            => eres.needed = 3 * (Len(text) + 1) /\ eres.available = W * H
       /\ Len(text) = 0 => eres.kind = "fields"

\* the check turned down a 50-character message for a 10x1 image
C2_Witness ==
    /\ paths = "ok" /\ W = 10 /\ H = 1 /\ Len(text) = 50
    /\ eres = [kind |-> "capacity", needed |-> 153, available |-> 10]

\* C3: when the image has fewer than 3*(len+1) pixels the encode fails
\* before anything is written: no copy exists, no pixel was read or put,
\* nothing is saved.
C3_AllOrNothing ==
    (W * H < 3 * (Len(text) + 1))
    => /\ epc \in {"idle", "failed"}
       /\ nwrites = 0 /\ rpos = 0
       /\ img = <<>> /\ out = <<>>

\* a one-character message was turned down for an image of 5 pixels
C3_Witness ==
    /\ paths = "ok" /\ epc = "failed" /\ eres.kind = "capacity"
    /\ Len(text) = 1 /\ W * H = 5
    /\ nwrites = 0 /\ img = <<>>

\* C4 as stated: encoding the empty string into an image of at least 3
\* pixels succeeds with exactly 3 pixels written, and decoding the output
\* returns the empty string.
C4_EmptyMessageEncodes ==
    (paths = "ok" /\ EncodeOver /\ text = <<>> /\ W * H >= 3)
    => /\ epc = "done" /\ nwrites = 3
       /\ DecodedOutput => dres = [kind |-> "ok", data |-> <<>>]

\* C4 amended: encoding the empty string is turned down as a missing field
\* whatever the image size, with no pixel written and nothing saved; and an
\* image whose first group carries the terminator alone decodes to
\* NoMessageFound, not to the empty string.
C4_EmptyMessageRejected ==
    /\ (text = <<>> /\ epc # "idle")
         => /\ epc = "failed" /\ eres.kind = "fields"
            /\ nwrites = 0 /\ img = <<>> /\ out = <<>>
    /\ (dpc = "done" /\ Len(dimg) >= 3 /\ AllEven(dimg, 0))
         => dres = [kind |-> "nomsg", data |-> <<>>]

\* the empty string was turned down for a 3x3 image, paths filled in, and
\* the image, which starts with a terminator group, was then decoded
C4_Witness ==
    /\ text = <<>> /\ paths = "ok" /\ W * H = 9
    /\ epc = "failed" /\ eres.kind = "fields" /\ nwrites = 0
    /\ dpc = "done" /\ dimg = src /\ AllEven(dimg, 0) /\ dres.kind = "nomsg"

\* C5: at every point of an encode, and in the saved output, the image
\* differs from the source only inside the first 8 channel values of the
\* first len+1 groups: pixels from index 3*(len+1) on and the blue channel
\* of each group's third pixel are the source's.
FrameOf(g) ==
    /\ Len(g) = Len(src)
    /\ \A i \in 1..Len(g) : i > 3 * (Len(text) + 1) => g[i] = src[i]
    /\ \A k \in 0..Len(text) : 3 * k + 3 <= Len(g) => g[3 * k + 3][3] = src[3 * k + 3][3]

C5_Frame ==
    /\ img # <<>> => FrameOf(img)
    /\ epc = "done" => FrameOf(out)

\* an encode changed the image and left pixels after the last group
C5_Witness ==
    /\ epc = "done" /\ out # src
    /\ Len(text) = 1 /\ Len(out) > 3 * (Len(text) + 1)
    /\ out[6][3] % 2 = 1

\* C6: the channel value the parity rule writes for (v, b) has parity b,
\* for every v in 0..255 and both bits.
C6_ParityWrite == cpc = "done" => ReadBit(cw) = cb

\* the largest channel value was given a 0 bit
C6_Witness == cpc = "done" /\ cv = 255 /\ cb = 0 /\ cw % 2 = 0

\* C7: the written value differs from v by at most 1, stays in 0..255, and
\* is v itself when v already has parity b.
C7_BoundedDistortion ==
    cpc = "done"
    => /\ cw - cv \in {-1, 0, 1}
       /\ cw \in 0..255
       /\ cv % 2 = cb => cw = cv

\* the smallest channel value was given a 1 bit and moved up by one
C7_Witness == cpc = "done" /\ cv = 0 /\ cb = 1 /\ cw = 1

\* C8 as stated: an image in which no complete group carries the
\* terminator decodes to NoMessageFound.
C8_NoTerminatorFails ==
    (DecodeOver /\ Terminators(dimg) = {}) => dres.kind = "nomsg"

\* C8 amended: such an image decodes to NoMessageFound exactly when it has
\* no complete group at all (fewer than 3 pixels).
C8_NoTerminatorFailsIffNoGroup ==
    (DecodeOver /\ Terminators(dimg) = {})
    => ((dres.kind = "nomsg") <=> (Len(dimg) < 3))

\* a two-pixel image was decoded and no message found
C8_Witness ==
    /\ DecodeOver /\ Len(dimg) = 2 /\ dpos = 2
    /\ dres = [kind |-> "nomsg", data |-> <<>>]

\* C9: an image of P >= 3 pixels without a terminator group decodes, as a
\* normal result, to the floor(P/3) characters of its complete groups; the
\* P mod 3 pixels left over add nothing.
C9_TruncatedDecode ==
    (DecodeOver /\ Len(dimg) >= 3 /\ Terminators(dimg) = {})
    => /\ dres.kind = "ok"
       /\ dres.data = [k \in 1..(Len(dimg) \div 3) |-> ParityCode(dimg, k - 1)]

\* a 7-pixel image without terminator gave 2 characters, one pixel left over
C9_Witness ==
    /\ DecodeOver /\ Len(dimg) = 7 /\ Terminators(dimg) = {}
    /\ dres.kind = "ok" /\ Len(dres.data) = 2 /\ dpos = 7

\* the first terminator group of image g
FirstTerminator(g) == CHOOSE k \in Terminators(g) : \A m \in Terminators(g) : k <= m

\* C10 as stated: with k the first terminator group, decode returns the k
\* characters of groups 0..k-1 and has consumed exactly 3*(k+1) pixels.
C10_StopsAtTerminator ==
    (DecodeOver /\ Terminators(dimg) # {})
    => LET k == FirstTerminator(dimg)
       IN  /\ dres.kind = "ok"
           /\ dres.data = [m \in 1..k |-> ParityCode(dimg, m - 1)]
           /\ dpos = 3 * (k + 1)

\* C10 amended: decode stops at the first terminator group k having consumed
\* exactly 3*(k+1) pixels; for k >= 1 it returns the k characters of groups
\* 0..k-1, for k = 0 it fails with NoMessageFound.
C10_StopsAtTerminatorNonEmpty ==
    /\ (DecodeOver /\ Terminators(dimg) # {})
         => LET k == FirstTerminator(dimg)
            IN  /\ dpos = 3 * (k + 1)
                /\ k >= 1 => dres = [kind |-> "ok",
                                     data |-> [m \in 1..k |-> ParityCode(dimg, m - 1)]]
                /\ k = 0 => dres = [kind |-> "nomsg", data |-> <<>>]
    /\ (dpc = "run" /\ Terminators(dimg) # {})
         => dpos <= 3 * FirstTerminator(dimg)

\* decode stopped at group 1 of an image with pixels after that group
C10_Witness ==
    /\ DecodeOver /\ Terminators(dimg) # {} /\ FirstTerminator(dimg) = 1
    /\ Len(dimg) > 6 /\ dimg[7] # <<0, 0, 0>>
    /\ dpos = 6 /\ dres.kind = "ok" /\ Len(dres.data) = 1

\* the accesses of the log that are reads, and those that are writes
ReadEvents == {n \in 1..Len(elog) : elog[n].op = "read"}
WriteEvents == {n \in 1..Len(elog) : elog[n].op = "write"}

\* C11: over the whole encode the generator's reads and the loop's writes
\* each go through the scan indices in strictly increasing order, so no
\* index is read twice or written twice; every write goes to an index read
\* before it and no index is read once it was written; the cursor of the next
\* write is (i mod W, i div W) for the i-th write; a finished encode has read
\* and written exactly the indices 0..3*(len+1)-1.
C11_ReadWriteOrder ==
    /\ \A m, n \in ReadEvents : m < n => elog[m].at < elog[n].at
    /\ \A m, n \in WriteEvents : m < n => elog[m].at < elog[n].at
    /\ \A n \in WriteEvents : \E m \in ReadEvents : m < n /\ elog[m].at = elog[n].at
    /\ \A m \in WriteEvents : \A n \in ReadEvents : m < n => elog[m].at # elog[n].at
    /\ epc \in {"gen", "put"} => x = nwrites % W /\ y = nwrites \div W
    /\ epc = "done"
         => /\ {elog[n].at : n \in ReadEvents} = 0..(3 * (Len(text) + 1) - 1)
            /\ {elog[n].at : n \in WriteEvents} = 0..(3 * (Len(text) + 1) - 1)
            /\ Cardinality(ReadEvents) = 3 * (Len(text) + 1)
            /\ Cardinality(WriteEvents) = 3 * (Len(text) + 1)
            /\ nwrites = 3 * (Len(text) + 1) /\ rpos = 3 * (Len(text) + 1)

\* the second group of a 2x3 image is being written: its first pixel, at
\* (1, 1), was put after the three reads of the group
C11_Witness ==
    /\ epc = "put" /\ W = 2 /\ H = 3 /\ Len(text) = 1
    /\ Len(elog) = 10 /\ elog[10] = [op |-> "write", at |-> 3]
    /\ elog[9] = [op |-> "read", at |-> 5]
    /\ x = 0 /\ y = 2

\* bit j (1 = most significant) of the 8-bit code of a symbol
BitOf(code, j) == (code \div (2 ^ (8 - j))) % 2

\* the symbols an encode embeds: the message, then the terminator
Symbols == Append(text, 0)

\* C12: after encoding a message of codes 0..255, the parity of the j-th
\* channel value of group k is bit j, most significant first, of symbol k,
\* the terminator being the last symbol; for a black source image every
\* channel value of those groups is 0 or 1.
C12_BitLayout ==
    (epc = "done" /\ \A i \in 1..Len(text) : text[i] \in 0..255)
    => /\ \A k \in 0..Len(text) : \A j \in 1..8 :
            GroupChannels(out, k)[j] % 2 = BitOf(Symbols[k + 1], j)
       /\ src = Blank(W * H)
            => \A k \in 0..Len(text) : \A j \in 1..8 :
                   GroupChannels(out, k)[j] \in {0, 1}

\* "Hi" was encoded into a black 3x3 image: 01001000, 01101001, 00000000
C12_Witness ==
    /\ epc = "done" /\ W = 3 /\ H = 3 /\ text = <<72, 105>>
    /\ src = Blank(9)
    /\ out = << <<0, 1, 0>>, <<0, 1, 0>>, <<0, 0, 0>>,
                <<0, 1, 1>>, <<0, 1, 0>>, <<0, 1, 0>>,
                <<0, 0, 0>>, <<0, 0, 0>>, <<0, 0, 0>> >>

\* C13 as stated: a message with a character code above 255 is turned down
\* before any pixel is written, and no encode succeeds with an embedded
\* symbol that differs from the one supplied.
C13_WideCharRejected ==
    /\ (\E i \in 1..Len(text) : text[i] > 255)
         => epc \in {"idle", "failed"} /\ nwrites = 0 /\ out = <<>>
    /\ epc = "done"
         => \A k \in 0..Len(text) : ParityCode(out, k) = Symbols[k + 1]

\* C14: once the check of encode_message has passed, neither the generator's
\* end-of-pixels error nor the loop's row-overflow error is raised: the
\* generator always finds three more pixels, and every write finds its
\* cursor inside the image.
C14_GuardsUnreachable ==
    /\ eres.kind \notin {"gen_small", "row_overflow"}
    /\ (epc = "gen" /\ gi < Len(text) + 1) => Len(img) - rpos >= 3
    /\ epc = "put" => x \in 0..(W - 1) /\ y \in 0..(H - 1)

\* a 3x3 image was filled to its last pixel by a two-character message: the
\* cursor ended below the last row and no guard fired
C14_Witness ==
    /\ epc = "done" /\ eres.kind = "ok"
    /\ W = 3 /\ H = 3 /\ Len(text) = 2
    /\ nwrites = 9 /\ x = 0 /\ y = 3

=============================================================================
